---- MODULE Spec2Model ----
(***************************************************************************)
(* A model of CommandForm (src/src/lib/command-form/command-form.svelte.ts)*)
(* with its helpers transformIssues and standardValidate.                  *)
(*                                                                         *)
(* JavaScript runs one segment of code at a time: an async function runs   *)
(* without interruption from one await to the next.  Every action below is *)
(* one such segment.  submit() and validate() are async, so several calls  *)
(* on one instance can be suspended at an await at the same time.          *)
(***************************************************************************)
EXTENDS Integers, Sequences, FiniteSets, TLC

(* ------------------------------ bounds --------------------------------- *)

\* Form field values are 1..MaxVal (for "name": the length of the string).
MaxVal == 2

\* Number of submit() calls that may be suspended at the same time.
MaxCalls == 2

\* The longest issue array handed to transformIssues and standardValidate.
MaxIssues == 3

(* ------------------------- program constants --------------------------- *)

\* z.string().min(2, ...) of the test schema.
MinNameLen == 2

(* ------------------------------ domains -------------------------------- *)

Keys == {"name", "age"}

Vals == 1..MaxVal

\* The values the accessor's underlying $state (someNum in the test) takes.
Nums == 0..(MaxVal - 1)

Calls == 1..MaxCalls

\* Every object with keys among Keys: a Partial<SchemaData>.
Objects == UNION {[D -> Vals] : D \in SUBSET Keys}

EmptyObject == [k \in {} |-> 0]

Null == "null"

\* What the command resolves with: a value that tells the calls apart.
CommandResult(c) == "r" \o ToString(c)

\* issues = $state<SchemaIssues | null>(null)
NullIssues == [null |-> TRUE, arr |-> <<>>]

IssuesOf(arr) == [null |-> FALSE, arr |-> arr]

Issue(path, message) == [path |-> path, message |-> message]

NameIssue == Issue(<<"name">>, "Name is required")

AgeIssue == Issue(<<"age">>, "Invalid input")

\* The issue array a server (or a hook) reports: two of its paths join to the
\* same key, and one issue has no path.
ServerIssueLists ==
  { <<Issue(<<"address", "city">>, "m1"), Issue(<<"address.city">>, "m2"),
      Issue(<<>>, "m3")>> }

\* The issue arrays the helpers are applied to: paths that are missing or
\* empty, of one or two segments, and one whose only segment holds a dot.
IssuePaths == {<<>>, <<"a">>, <<"a", "b">>, <<"a.b">>}

IssueMessages == {"m1", "m2"}

IssueLists(longest) ==
  UNION {[1..n -> {Issue(path, message) : path \in IssuePaths, message \in IssueMessages}] :
           n \in 0..longest}

ServerRecords == { [k \in {"name"} |-> [message |-> "taken"]] }

(* ------------------------------ errors --------------------------------- *)

NoRecord == [k \in {} |-> [message |-> ""]]

SchemaValidationError(iss) ==
  [kind |-> "schema", shape |-> "array", issues |-> iss, rec |-> NoRecord, id |-> ""]

\* An HttpError of SvelteKit; shape tells what body.issues is.
HttpError(shape, iss, rec) ==
  [kind |-> "http", shape |-> shape, issues |-> iss, rec |-> rec, id |-> ""]

OtherError(id) ==
  [kind |-> "other", shape |-> "none", issues |-> <<>>, rec |-> NoRecord, id |-> id]

NoError == OtherError("")

NoValueError == OtherError("Schema validation did not return a value")

\* What the onError hook throws, when it throws.
OnErrorFailure == OtherError("onError threw")

\* What a hook or the command may throw.
Thrown ==
  {SchemaValidationError(l) : l \in ServerIssueLists}
    \union {HttpError("array", l, NoRecord) : l \in ServerIssueLists}
    \union {HttpError("record", <<>>, r) : r \in ServerRecords}
    \union {HttpError("none", <<>>, NoRecord), OtherError("boom")}

isHttpError(err) == err.kind = "http"

\* The branch of the catch block an error takes.
errorClass(err) ==
  IF err.kind = "schema" THEN "schema"
  ELSE IF isHttpError(err) THEN "http " \o err.shape
  ELSE "other"

(* --------------------------- transformIssues --------------------------- *)

\* Array.prototype.join('.')
RECURSIVE join(_)
join(path) ==
  IF path = <<>> THEN ""
  ELSE IF Len(path) = 1 THEN path[1]
  ELSE path[1] \o "." \o join(Tail(path))

\* transformed[key] = val on a copy of the record.
Assigned(rec, key, val) ==
  [k \in (DOMAIN rec) \union {key} |-> IF k = key THEN val ELSE rec[k]]

transformIssuesFirstWins(iss) ==
  LET keys == {join(iss[i].path) : i \in 1..Len(iss)}
      first(k) == CHOOSE i \in 1..Len(iss) :
                    /\ join(iss[i].path) = k
                    /\ \A j \in 1..(i - 1) : join(iss[j].path) # k
  IN [k \in keys |-> [message |-> iss[first(k)].message]]

RECURSIVE transformFromSkipsPathless(_, _)
transformFromSkipsPathless(iss, transformed) ==
  IF iss = <<>> THEN transformed
  ELSE transformFromSkipsPathless(Tail(iss),
         IF Head(iss).path = <<>> THEN transformed
         ELSE Assigned(transformed, join(Head(iss).path), [message |-> Head(iss).message]))

RECURSIVE transformFrom(_, _)
transformFrom(iss, transformed) ==
  IF iss = <<>> THEN transformed
  ELSE transformFrom(Tail(iss),
         Assigned(transformed, join(Head(iss).path), [message |-> Head(iss).message]))

transformIssues(iss) == transformFrom(iss, NoRecord)

\* transformIssues(issues?): the argument may be missing.
transformOptional(input) == IF input.null THEN NoRecord ELSE transformIssues(input.arr)

(* --------------------------- standardValidate -------------------------- *)

\* The result object of schema['~standard'].validate(input).
ValidationResult(iss, hasValue, value) ==
  [issues |-> iss, hasValue |-> hasValue, value |-> value]

\* The test schema: name a string of at least MinNameLen characters, age a
\* number; issues come in the order of the schema's fields.
testSchema(input) ==
  LET nameBad == ~("name" \in DOMAIN input) \/ input["name"] < MinNameLen
      ageBad == ~("age" \in DOMAIN input)
      iss == (IF nameBad THEN <<NameIssue>> ELSE <<>>)
               \o (IF ageBad THEN <<AgeIssue>> ELSE <<>>)
  IN IF iss = <<>> THEN ValidationResult(<<>>, TRUE, input)
     ELSE ValidationResult(iss, FALSE, EmptyObject)

\* What a Standard Schema may answer for an input: the test schema's answer,
\* or a result object with neither issues nor a value.
SchemaResults(input) ==
  {testSchema(input), ValidationResult(<<>>, FALSE, EmptyObject)}

\* Every result object a Standard Schema may answer with: issues or none, a
\* value or none.
ValidationResults(lists) ==
  {ValidationResult(l, FALSE, EmptyObject) : l \in lists}
    \union {ValidationResult(l, TRUE, v) : l \in lists, v \in Objects}

standardValidateValueFirst(r) ==
  IF r.hasValue
  THEN [threw |-> FALSE, err |-> NoError, value |-> r.value]
  ELSE IF Len(r.issues) > 0
  THEN [threw |-> TRUE, err |-> SchemaValidationError(r.issues), value |-> EmptyObject]
  ELSE [threw |-> TRUE, err |-> NoValueError, value |-> EmptyObject]

\* standardValidate after the result is awaited: what it throws or returns.
standardValidate(r) ==
  IF Len(r.issues) > 0
  THEN [threw |-> TRUE, err |-> SchemaValidationError(r.issues), value |-> EmptyObject]
  ELSE IF r.hasValue
  THEN [threw |-> FALSE, err |-> NoError, value |-> r.value]
  ELSE [threw |-> TRUE, err |-> NoValueError, value |-> EmptyObject]

(* ------------------------------- options ------------------------------- *)

\* initial: { name: "Initial Name", age: someNum + 1 }, as in the tests.
InitialObject(n) == [k \in Keys |-> IF k = "name" THEN MinNameLen ELSE n + 1]

InitialKinds == {"undefined", "object", "function"}

ResetPolicies == {"undefined", "onSuccess", "onError", "always"}

\* invalidate?: string | string[] | 'all'
Invalidate(kind, targets) == [kind |-> kind, targets |-> targets]

InvalidateOptions ==
  { Invalidate("undefined", <<>>), Invalidate("all", <<>>),
    Invalidate("string", <<"user:details">>),
    Invalidate("array", <<"a", "b">>) }

(* ------------------------------- state --------------------------------- *)

VARIABLES
  form,        \* form = $state<Partial<SchemaData>>({})
  errors,      \* errors = $state<CommandFormErrors>({})
  issues,      \* issues = $state<SchemaIssues | null>(null)
  submitting,  \* private _submitting = $state(false)
  result,      \* private _result = $state<Awaited<TOut> | null>(null)
  options,     \* private options, fixed at construction
  someNum,     \* the $state the accessor of options.initial reads
  call,        \* the submit() calls: where each is suspended, and its locals
  vcall,       \* the validate() call: where it is suspended
  hist         \* history: the operation on the form that was the last step

vars == <<form, errors, issues, submitting, result, options, someNum, call, vcall, hist>>

\* A submit() call that has not been made: the locals of submit() plus a
\* record of what the call did (cmdArg and successArg: what the command and
\* onSuccess were called with; cmdCount, onErrorCount, invalidated, resets).
NoCall ==
  [ pc |-> "idle",
    vres |-> ValidationResult(<<>>, FALSE, EmptyObject),
    parsed |-> EmptyObject,
    res |-> Null,
    cmdArg |-> EmptyObject,
    successArg |-> Null,
    inv |-> 0,
    err |-> NoError,
    settled |-> "no",
    ret |-> Null,
    caught |-> "none",
    cmdCount |-> 0,
    onErrorCount |-> 0,
    invalidated |-> <<>>,
    resets |-> 0 ]

NoValidate == [pc |-> "idle", vres |-> ValidationResult(<<>>, FALSE, EmptyObject)]

NoBefore == [valid |-> FALSE, pre |-> EmptyObject, values |-> EmptyObject]

\* The argument of an addError() when there was none.
NoErrorArg == [path |-> "", message |-> ""]

\* hist.on tells which operations the history keeps: "none", "resets" (the
\* constructor, reset() and changes of someNum), "errors" (validate() and
\* addError(), see ErrorsHistory) or "all".  op names the operation, pre is
\* the form before it, values and clear are the arguments of a set(), and
\* before describes the merge-mode set() that came right before a merge-mode
\* set().
History(on, op, pre, values, clear, before) ==
  IF on = "all" \/ (on = "resets" /\ op \in {"constructor", "reset", "someNum"})
  THEN [on |-> on, op |-> op, pre |-> pre, values |-> values, clear |-> clear,
        before |-> before, errs |-> NoRecord, error |-> NoErrorArg]
  ELSE [on |-> on, op |-> "none", pre |-> EmptyObject, values |-> EmptyObject,
        clear |-> FALSE, before |-> NoBefore, errs |-> NoRecord, error |-> NoErrorArg]

NoHistory(on) == History(on, "none", EmptyObject, EmptyObject, FALSE, NoBefore)

\* The history of an operation on the error stores: errs is errors before it,
\* error the argument of an addError().
ErrorsHistory(on, op, errs, error) ==
  IF on = "errors"
  THEN [NoHistory(on) EXCEPT !.op = op, !.errs = errs, !.error = error]
  ELSE NoHistory(on)

InFlight(c) == call[c].pc \notin {"idle", "done"}

(* ------------------------- the form snapshot --------------------------- *)

\* Object.assign(target, source)
ObjectAssign(target, source) ==
  [k \in (DOMAIN target) \union (DOMAIN source) |->
     IF k \in DOMAIN source THEN source[k] ELSE target[k]]

resolveInitialAtConstruction(opts, n) ==
  IF opts.initial.kind = "undefined" THEN EmptyObject ELSE opts.initial.object

resolveInitial(opts, n) ==
  IF opts.initial.kind = "function" THEN InitialObject(n)
  ELSE IF opts.initial.kind = "object" THEN opts.initial.object
  ELSE EmptyObject

resetKeepsKeys(f, opts, n) == ObjectAssign(f, resolveInitial(opts, n))

\* reset: delete every key of the form, then assign the resolved initial.
reset(f, opts, n) == ObjectAssign(EmptyObject, resolveInitial(opts, n))

setNeverClears(f, values, clearIfExists) == ObjectAssign(f, values)

setAlwaysClears(f, values, clearIfExists) == ObjectAssign(EmptyObject, values)

\* set(values, clearIfExists)
set(f, values, clearIfExists) ==
  ObjectAssign(IF clearIfExists THEN EmptyObject ELSE f, values)

(* --------------------------- the error stores -------------------------- *)

\* clearErrors deletes every key of errors.
clearErrors == NoRecord

setErrorsFromIssuesKeepsStale(iss) ==
  [errors |-> ObjectAssign(errors, transformIssues(iss)), issues |-> IssuesOf(iss)]

\* setErrorsFromIssues: the new errors and issues.
setErrorsFromIssues(iss) ==
  [errors |-> ObjectAssign(clearErrors, transformIssues(iss)), issues |-> IssuesOf(iss)]

\* setErrorsFromRecord: the new errors and issues.
setErrorsFromRecord(rec) ==
  [errors |-> ObjectAssign(clearErrors, rec), issues |-> NullIssues]

(* ----------------------------- construction ---------------------------- *)

OptionsOf(kind, n, policy, inv) ==
  [ initial |-> [kind |-> kind,
                 object |-> IF kind = "undefined" THEN EmptyObject ELSE InitialObject(n)],
    reset |-> policy,
    invalidate |-> inv ]

\* new CommandForm(schema, options): this.set(this.resolveInitial(), true)
Constructed(on, kinds, policies, invs) ==
  /\ someNum = 0
  /\ \E kind \in kinds, policy \in policies, inv \in invs :
       options = OptionsOf(kind, someNum, policy, inv)
  /\ form = set(EmptyObject, resolveInitial(options, someNum), TRUE)
  /\ errors = NoRecord
  /\ issues = NullIssues
  /\ submitting = FALSE
  /\ result = Null
  /\ call = [c \in Calls |-> NoCall]
  /\ vcall = NoValidate
  /\ hist = History(on, "constructor", EmptyObject, EmptyObject, FALSE, NoBefore)

\* Where other operations come between the segments of a submit(): no
\* invalidation, or one of several targets.
SomeInvalidateOptions == {Invalidate("undefined", <<>>), Invalidate("array", <<"a", "b">>)}

Init == Constructed("resets", InitialKinds, ResetPolicies, SomeInvalidateOptions)

\* Where no submit() is made, the reset policy and the invalidation targets
\* play no part.
InitForm ==
  Constructed("all", InitialKinds, {"undefined"}, {Invalidate("undefined", <<>>)})

\* Where someNum never changes, an accessor gives what the object gives.
InitErrors ==
  Constructed("none", {"undefined", "object"}, ResetPolicies, SomeInvalidateOptions)

InitOverlap ==
  Constructed("none", {"undefined", "object"}, ResetPolicies, InvalidateOptions)

\* Where the error stores are looked at, the reset policy plays no part: no
\* reset() reads or writes them.
InitStores ==
  Constructed("errors", {"undefined", "object"}, {"undefined"}, SomeInvalidateOptions)

(* ------------------------ operations on the form ----------------------- *)

\* f.set(values, clearIfExists)
Set(values, clearIfExists) ==
  /\ form' = set(form, values, clearIfExists)
  /\ hist' = History(hist.on, "set", form, values, clearIfExists,
                     IF ~clearIfExists /\ hist.op = "set" /\ ~hist.clear
                     THEN [valid |-> TRUE, pre |-> hist.pre, values |-> hist.values]
                     ELSE NoBefore)
  /\ UNCHANGED <<errors, issues, submitting, result, options, someNum, call, vcall>>

ResetClearsErrors ==
  /\ form' = reset(form, options, someNum)
  /\ errors' = clearErrors
  /\ issues' = NullIssues
  /\ hist' = History(hist.on, "reset", form, EmptyObject, FALSE, NoBefore)
  /\ UNCHANGED <<submitting, result, options, someNum, call, vcall>>

\* f.reset()
Reset ==
  /\ form' = reset(form, options, someNum)
  /\ hist' = History(hist.on, "reset", form, EmptyObject, FALSE, NoBefore)
  /\ UNCHANGED <<errors, issues, submitting, result, options, someNum, call, vcall>>

\* f.form[key] = value (bind:value or a direct assignment)
Assign(key, value) ==
  /\ form' = ObjectAssign(form, [k \in {key} |-> value])
  /\ hist' = History(hist.on, "assign", form, EmptyObject, FALSE, NoBefore)
  /\ UNCHANGED <<errors, issues, submitting, result, options, someNum, call, vcall>>

\* someNum = n: the value the accessor reads changes; nothing re-runs the
\* constructor, so the form is left alone.
ChangeSomeNum(n) ==
  /\ n # someNum
  /\ someNum' = n
  /\ hist' = History(hist.on, "someNum", form, EmptyObject, FALSE, NoBefore)
  /\ UNCHANGED <<form, errors, issues, submitting, result, options, call, vcall>>

AddErrorReplaces(path, message) ==
  /\ errors' = Assigned(NoRecord, path, [message |-> message])
  /\ hist' = ErrorsHistory(hist.on, "addError", errors, [path |-> path, message |-> message])
  /\ UNCHANGED <<form, issues, submitting, result, options, someNum, call, vcall>>

\* f.addError({ path, message })
AddError(path, message) ==
  /\ errors' = Assigned(errors, path, [message |-> message])
  /\ hist' = ErrorsHistory(hist.on, "addError", errors, [path |-> path, message |-> message])
  /\ UNCHANGED <<form, issues, submitting, result, options, someNum, call, vcall>>

(* ------------------------------- submit -------------------------------- *)

\* The locals of a call that no longer matter once it has left the try block.
Left(cur) ==
  [cur EXCEPT !.vres = NoCall.vres, !.parsed = NoCall.parsed, !.res = NoCall.res,
              !.cmdArg = NoCall.cmdArg, !.inv = NoCall.inv]

catchErrorsClearsOnOther(err) ==
  IF err.kind = "schema" THEN setErrorsFromIssues(err.issues)
  ELSE IF isHttpError(err) /\ err.shape = "array" THEN setErrorsFromIssues(err.issues)
  ELSE IF isHttpError(err) /\ err.shape = "record" THEN setErrorsFromRecord(err.rec)
  ELSE [errors |-> clearErrors, issues |-> NullIssues]

\* The error stores after the catch block has looked at err.
catchErrors(err) ==
  IF err.kind = "schema" THEN setErrorsFromIssues(err.issues)
  ELSE IF isHttpError(err) /\ err.shape = "array" THEN setErrorsFromIssues(err.issues)
  ELSE IF isHttpError(err) /\ err.shape = "record" THEN setErrorsFromRecord(err.rec)
  ELSE [errors |-> errors, issues |-> issues]

finallySubmitting(before) == FALSE

resetWhenAnyPolicy(when) == options.reset # "undefined"

resetWhenByDefault(when) == options.reset \in {when, "undefined"}

\* if (this.options.reset === when) this.reset()
resetWhen(when) == options.reset = when

\* The form after "if (this.options.reset === when) this.reset()".
resetOn(when, f) == IF resetWhen(when) THEN reset(f, options, someNum) ELSE f

\* How many times that line has called reset(): once or not at all.
resetsOn(when) == IF resetWhen(when) THEN 1 ELSE 0

CatchCallsOnErrorTwice(c, err) ==
  /\ form' = resetOn("onError", form)
  /\ errors' = catchErrors(err).errors
  /\ issues' = catchErrors(err).issues
  /\ call' = [call EXCEPT ![c] =
                [Left(@) EXCEPT !.pc = "onError", !.err = err,
                                !.caught = errorClass(err),
                                !.onErrorCount =
                                   @ + (IF isHttpError(err) /\ err.shape # "array" THEN 2 ELSE 1),
                                !.resets = @ + resetsOn("onError")]]
  /\ hist' = NoHistory(hist.on)
  /\ UNCHANGED <<submitting, result, options, someNum, vcall>>

\* catch (err): reset on 'onError', record the issues, call onError(err); the
\* call is then suspended at "await this.options.onError?.(err)".
Catch(c, err) ==
  /\ form' = resetOn("onError", form)
  /\ errors' = catchErrors(err).errors
  /\ issues' = catchErrors(err).issues
  /\ call' = [call EXCEPT ![c] =
                [Left(@) EXCEPT !.pc = "onError", !.err = err,
                                !.caught = errorClass(err),
                                !.onErrorCount = @ + 1,
                                !.resets = @ + resetsOn("onError")]]
  /\ hist' = NoHistory(hist.on)
  /\ UNCHANGED <<submitting, result, options, someNum, vcall>>

\* finally: the call settles, resolved with ret or rejected with err; f is the
\* form and n the number of resets the segment has made before the finally
\* block.
Finally(c, f, n, settled, ret, err) ==
  /\ submitting' = finallySubmitting(submitting)
  /\ form' = resetOn("always", f)
  /\ call' = [call EXCEPT ![c] =
                [Left(@) EXCEPT !.pc = "done", !.settled = settled, !.ret = ret,
                                !.err = err,
                                !.resets = @ + n + resetsOn("always")]]
  /\ hist' = NoHistory(hist.on)
  /\ UNCHANGED <<options, someNum, vcall>>

ReturnNull(c) ==
  /\ Finally(c, resetOn("onSuccess", form), resetsOn("onSuccess"),
             "resolved", Null, NoError)
  /\ UNCHANGED <<errors, issues, result>>

\* if (reset === 'onSuccess') this.reset(); return res; then finally.
Return(c) ==
  /\ Finally(c, resetOn("onSuccess", form), resetsOn("onSuccess"),
             "resolved", call[c].res, NoError)
  /\ UNCHANGED <<errors, issues, result>>

SubmitKeepsErrors(c) ==
  /\ ~InFlight(c)
  /\ \A d \in 1..(c - 1) : InFlight(d)
  /\ submitting' = TRUE
  /\ result' = Null
  /\ call' = [call EXCEPT ![c] = [NoCall EXCEPT !.pc = "preprocess"]]
  /\ hist' = NoHistory(hist.on)
  /\ UNCHANGED <<form, errors, issues, options, someNum, vcall>>

\* f.submit(), up to "await this.options.preprocess?.(this.form)".  Of the
\* places for calls, a new call takes the lowest free one.
Submit(c) ==
  /\ ~InFlight(c)
  /\ \A d \in 1..(c - 1) : InFlight(d)
  /\ submitting' = TRUE
  /\ errors' = clearErrors
  /\ issues' = NullIssues
  /\ result' = Null
  /\ call' = [call EXCEPT ![c] = [NoCall EXCEPT !.pc = "preprocess"]]
  /\ hist' = NoHistory(hist.on)
  /\ UNCHANGED <<form, options, someNum, vcall>>

\* preprocess has returned: parseForm() hands the form to the schema; the call
\* is suspended until the validation result is there.
PreprocessReturns(c) ==
  /\ call[c].pc = "preprocess"
  /\ \E r \in SchemaResults(form) :
       call' = [call EXCEPT ![c] = [@ EXCEPT !.pc = "parse", !.vres = r]]
  /\ hist' = NoHistory(hist.on)
  /\ UNCHANGED <<form, errors, issues, submitting, result, options, someNum, vcall>>

PreprocessThrows(c) ==
  /\ call[c].pc = "preprocess"
  /\ \E err \in Thrown : Catch(c, err)

ParseReturnsAnyway(c) ==
  /\ call[c].pc = "parse"
  /\ call' = [call EXCEPT ![c] =
                [@ EXCEPT !.pc = "onSubmit",
                          !.parsed = standardValidate(call[c].vres).value]]
  /\ hist' = NoHistory(hist.on)
  /\ UNCHANGED <<form, errors, issues, submitting, result, options, someNum, vcall>>

\* The validation result is there and has a value: onSubmit(parsed) is called.
ParseReturns(c) ==
  /\ call[c].pc = "parse"
  /\ ~standardValidate(call[c].vres).threw
  /\ call' = [call EXCEPT ![c] =
                [@ EXCEPT !.pc = "onSubmit",
                          !.parsed = standardValidate(call[c].vres).value]]
  /\ hist' = NoHistory(hist.on)
  /\ UNCHANGED <<form, errors, issues, submitting, result, options, someNum, vcall>>

\* standardValidate throws: a SchemaValidationError or the generic error.
ParseThrows(c) ==
  /\ call[c].pc = "parse"
  /\ standardValidate(call[c].vres).threw
  /\ Catch(c, standardValidate(call[c].vres).err)

\* onSubmit has returned: the command is invoked with the parsed data.
OnSubmitReturns(c) ==
  /\ call[c].pc = "onSubmit"
  /\ call' = [call EXCEPT ![c] = [@ EXCEPT !.pc = "command", !.cmdArg = call[c].parsed,
                                            !.cmdCount = @ + 1]]
  /\ hist' = NoHistory(hist.on)
  /\ UNCHANGED <<form, errors, issues, submitting, result, options, someNum, vcall>>

OnSubmitThrows(c) ==
  /\ call[c].pc = "onSubmit"
  /\ \E err \in Thrown : Catch(c, err)

StartInvalidateLastFirst(cur) ==
  IF options.invalidate.kind \in {"undefined"} THEN cur
  ELSE IF options.invalidate.kind = "all"
  THEN [cur EXCEPT !.pc = "invalidate", !.inv = 1, !.invalidated = Append(@, "invalidateAll")]
  ELSE [cur EXCEPT !.pc = "invalidate", !.inv = 1,
                   !.invalidated = Append(@, options.invalidate.targets[
                                               Len(options.invalidate.targets)])]

\* The first invalidation the options ask for is called, or none.
StartInvalidate(cur) ==
  IF options.invalidate.kind \in {"undefined"} THEN cur
  ELSE IF options.invalidate.kind = "all"
  THEN [cur EXCEPT !.pc = "invalidate", !.inv = 1, !.invalidated = Append(@, "invalidateAll")]
  ELSE [cur EXCEPT !.pc = "invalidate", !.inv = 1,
                   !.invalidated = Append(@, options.invalidate.targets[1])]

\* The command has resolved with res: _result = res, issues = null, and
\* onSuccess(res) is called.
CommandResolves(c) ==
  /\ call[c].pc = "command"
  /\ result' = CommandResult(c)
  /\ call' = [call EXCEPT ![c] = [@ EXCEPT !.pc = "onSuccess", !.res = CommandResult(c),
                                            !.successArg = CommandResult(c)]]
  /\ issues' = NullIssues
  /\ hist' = NoHistory(hist.on)
  /\ UNCHANGED <<form, errors, submitting, options, someNum, vcall>>

CommandThrowsRetries(c) ==
  /\ call[c].pc = "command"
  /\ call[c].cmdCount < 2
  /\ call' = [call EXCEPT ![c] = [@ EXCEPT !.cmdCount = @ + 1]]
  /\ hist' = NoHistory(hist.on)
  /\ UNCHANGED <<form, errors, issues, submitting, result, options, someNum, vcall>>

CommandThrows(c) ==
  /\ call[c].pc = "command"
  /\ \E err \in Thrown : Catch(c, err)

\* onSuccess has returned and there is something to invalidate.
OnSuccessInvalidates(c) ==
  /\ call[c].pc = "onSuccess"
  /\ options.invalidate.kind # "undefined"
  /\ call' = [call EXCEPT ![c] = StartInvalidate(@)]
  /\ hist' = NoHistory(hist.on)
  /\ UNCHANGED <<form, errors, issues, submitting, result, options, someNum, vcall>>

\* onSuccess has returned and there is nothing to invalidate.
OnSuccessReturns(c) ==
  /\ call[c].pc = "onSuccess"
  /\ options.invalidate.kind = "undefined"
  /\ Return(c)

OnSuccessThrows(c) ==
  /\ call[c].pc = "onSuccess"
  /\ \E err \in Thrown : Catch(c, err)

\* for (const inv of this.options.invalidate) await invalidate(inv): the next one.
InvalidateNext(c) ==
  /\ call[c].pc = "invalidate"
  /\ options.invalidate.kind = "array"
  /\ call[c].inv < Len(options.invalidate.targets)
  /\ call' = [call EXCEPT ![c] =
                [@ EXCEPT !.inv = @ + 1,
                          !.invalidated = Append(@, options.invalidate.targets[call[c].inv + 1])]]
  /\ hist' = NoHistory(hist.on)
  /\ UNCHANGED <<form, errors, issues, submitting, result, options, someNum, vcall>>

\* The last invalidation has returned.
InvalidateReturns(c) ==
  /\ call[c].pc = "invalidate"
  /\ options.invalidate.kind = "array" => call[c].inv >= Len(options.invalidate.targets)
  /\ Return(c)

InvalidateThrows(c) ==
  /\ call[c].pc = "invalidate"
  /\ \E err \in Thrown : Catch(c, err)

\* onError has returned: return null; then finally.
OnErrorReturns(c) ==
  /\ call[c].pc = "onError"
  /\ Finally(c, form, 0, "resolved", Null, NoError)
  /\ UNCHANGED <<errors, issues, result>>

\* onError itself throws: the finally block runs and submit() rejects.
OnErrorThrows(c) ==
  /\ call[c].pc = "onError"
  /\ Finally(c, form, 0, "rejected", Null, OnErrorFailure)
  /\ UNCHANGED <<errors, issues, result>>

(* ------------------------------ validate ------------------------------- *)

ValidateSetsSubmitting ==
  /\ vcall.pc = "idle"
  /\ \E r \in SchemaResults(form) :
       vcall' = [pc |-> "parse", vres |-> [r EXCEPT !.value = EmptyObject]]
  /\ submitting' = TRUE
  /\ hist' = NoHistory(hist.on)
  /\ UNCHANGED <<form, errors, issues, result, options, someNum, call>>

\* f.validate(), up to "await this.parseForm()"; validate() does not use the
\* value parseForm() resolves with, so it is not kept.
Validate ==
  /\ vcall.pc = "idle"
  /\ \E r \in SchemaResults(form) :
       vcall' = [pc |-> "parse", vres |-> [r EXCEPT !.value = EmptyObject]]
  /\ hist' = NoHistory(hist.on)
  /\ UNCHANGED <<form, errors, issues, submitting, result, options, someNum, call>>

ValidatePassesKeepsErrors ==
  /\ vcall.pc = "parse"
  /\ ~standardValidate(vcall.vres).threw
  /\ issues' = NullIssues
  /\ vcall' = NoValidate
  /\ hist' = ErrorsHistory(hist.on, "validate passed", errors, NoErrorArg)
  /\ UNCHANGED <<form, errors, submitting, result, options, someNum, call>>

\* The form parsed: this.errors = {}; this.issues = null.
ValidatePasses ==
  /\ vcall.pc = "parse"
  /\ ~standardValidate(vcall.vres).threw
  /\ errors' = NoRecord
  /\ issues' = NullIssues
  /\ vcall' = NoValidate
  /\ hist' = ErrorsHistory(hist.on, "validate passed", errors, NoErrorArg)
  /\ UNCHANGED <<form, submitting, result, options, someNum, call>>

\* A SchemaValidationError: setErrorsFromIssues(err.issues).
ValidateFails ==
  /\ vcall.pc = "parse"
  /\ standardValidate(vcall.vres).threw
  /\ standardValidate(vcall.vres).err.kind = "schema"
  /\ errors' = setErrorsFromIssues(standardValidate(vcall.vres).err.issues).errors
  /\ issues' = setErrorsFromIssues(standardValidate(vcall.vres).err.issues).issues
  /\ vcall' = NoValidate
  /\ hist' = ErrorsHistory(hist.on, "validate failed", errors, NoErrorArg)
  /\ UNCHANGED <<form, submitting, result, options, someNum, call>>

\* Any other error is thrown on: validate() rejects and writes nothing.
ValidateRethrows ==
  /\ vcall.pc = "parse"
  /\ standardValidate(vcall.vres).threw
  /\ standardValidate(vcall.vres).err.kind # "schema"
  /\ vcall' = NoValidate
  /\ hist' = NoHistory(hist.on)
  /\ UNCHANGED <<form, errors, issues, submitting, result, options, someNum, call>>

(* ---------------------------- specification ---------------------------- *)

FormStep ==
  \/ \E values \in Objects, clearIfExists \in BOOLEAN : Set(values, clearIfExists)
  \/ Reset
  \/ \E key \in Keys, value \in Vals : Assign(key, value)
  \/ \E n \in Nums : ChangeSomeNum(n)

SubmitStep(c) ==
  \/ Submit(c)
  \/ PreprocessReturns(c)
  \/ PreprocessThrows(c)
  \/ ParseReturns(c)
  \/ ParseThrows(c)
  \/ OnSubmitReturns(c)
  \/ OnSubmitThrows(c)
  \/ CommandResolves(c)
  \/ CommandThrows(c)
  \/ OnSuccessInvalidates(c)
  \/ OnSuccessReturns(c)
  \/ OnSuccessThrows(c)
  \/ InvalidateNext(c)
  \/ InvalidateReturns(c)
  \/ InvalidateThrows(c)
  \/ OnErrorReturns(c)
  \/ OnErrorThrows(c)

ValidateStep ==
  \/ Validate
  \/ ValidatePasses
  \/ ValidateFails
  \/ ValidateRethrows

AddErrorStep == AddError("name", "Test Error")

AssignStep == \E key \in Keys, value \in Vals : Assign(key, value)

\* One submit() at a time, with every operation on the form in between its
\* segments.
Next ==
  \/ FormStep
  \/ SubmitStep(1)

Spec == Init /\ [][Next]_vars

\* One submit() at a time, with validate(), addError() and edits of the
\* fields in between its segments.
NextErrors ==
  \/ AssignStep
  \/ AddErrorStep
  \/ SubmitStep(1)
  \/ ValidateStep

SpecErrors == InitErrors /\ [][NextErrors]_vars

\* The operations on the form alone, with the history of all of them kept.
SpecForm == InitForm /\ [][FormStep]_vars

\* The same steps, with the history of validate() and addError() kept.
SpecStores == InitStores /\ [][NextErrors]_vars

\* One submit() at a time, with validate() and edits of the fields in between
\* its segments, and no addError().
NextValidate ==
  \/ AssignStep
  \/ SubmitStep(1)
  \/ ValidateStep

SpecValidate == InitStores /\ [][NextValidate]_vars

\* One submit() at a time, under every reset policy, with set() and reset()
\* in between its segments.
NextReset ==
  \/ \E values \in Objects, clearIfExists \in BOOLEAN : Set(values, clearIfExists)
  \/ Reset
  \/ SubmitStep(1)

SpecReset == InitErrors /\ [][NextReset]_vars

\* One submit() at a time, under every kind of invalidate option, with edits
\* of the fields in between its segments.
NextSubmit ==
  \/ AssignStep
  \/ SubmitStep(1)

SpecSubmit == InitOverlap /\ [][NextSubmit]_vars

\* transformIssues on its own: the argument is held in issues (null when it
\* is missing), the record it returns in errors.
InitTransform ==
  /\ issues \in {NullIssues} \union {IssuesOf(l) : l \in IssueLists(MaxIssues)}
  /\ errors = NoRecord
  /\ form = EmptyObject
  /\ submitting = FALSE
  /\ result = Null
  /\ options = OptionsOf("undefined", 0, "undefined", Invalidate("undefined", <<>>))
  /\ someNum = 0
  /\ call = [c \in Calls |-> NoCall]
  /\ vcall = NoValidate
  /\ hist = NoHistory("errors")

TransformIssues ==
  /\ hist.op = "none"
  /\ errors' = transformOptional(issues)
  /\ hist' = ErrorsHistory(hist.on, "transformIssues", errors, NoErrorArg)
  /\ UNCHANGED <<form, issues, submitting, result, options, someNum, call, vcall>>

SpecTransform == InitTransform /\ [][TransformIssues]_vars

\* standardValidate on its own: a submit() is suspended at "await
\* this.parseForm()" and the schema answers with any result object.
InitStandardValidate ==
  /\ \E r \in ValidationResults(IssueLists(MaxIssues)) :
       call = [c \in Calls |->
                 IF c = 1 THEN [NoCall EXCEPT !.pc = "parse", !.vres = r] ELSE NoCall]
  /\ form = EmptyObject
  /\ errors = NoRecord
  /\ issues = NullIssues
  /\ submitting = TRUE
  /\ result = Null
  /\ options = OptionsOf("undefined", 0, "undefined", Invalidate("undefined", <<>>))
  /\ someNum = 0
  /\ vcall = NoValidate
  /\ hist = NoHistory("none")

NextStandardValidate ==
  \/ ParseReturns(1)
  \/ ParseThrows(1)

SpecStandardValidate == InitStandardValidate /\ [][NextStandardValidate]_vars

\* Several submit() calls at a time.
NextOverlap == \E c \in Calls : SubmitStep(c)

SpecOverlap == InitOverlap /\ [][NextOverlap]_vars

(* ------------------------------------------------------------------------ *)
(*                               properties                                 *)
(* ------------------------------------------------------------------------ *)

Settled(c) == call[c].pc = "done"

\* The record the README describes for an issue array: one key per dot-joined
\* path, holding the message of the last issue with that path.
DotPathRecord(iss) ==
  LET key(i) == join(iss[i].path)
      last(k) == CHOOSE i \in 1..Len(iss) :
                   key(i) = k /\ \A j \in (i + 1)..Len(iss) : key(j) # k
  IN [k \in {key(i) : i \in 1..Len(iss)} |-> [message |-> iss[last(k)].message]]

\* C1: submit() is single-flight: whenever the command of one submit() call has
\* been invoked and has not settled, no other submit() call on the instance is
\* in flight.
C1_SingleFlight ==
  \A c \in Calls, d \in Calls :
    (c # d /\ call[c].pc = "command") => ~InFlight(d)

\* C2: the submitting getter is true exactly while a submit() call has started
\* and has not settled.
C2_SubmittingReflectsProgress ==
  submitting <=> (\E c \in Calls : InFlight(c))

\* C3: after set(values, clear) the form holds every key of values with its
\* given value; every other key is as it was before (merge), or is gone when
\* clear is true (replace).
C3_SetMergesOrReplaces ==
  hist.op = "set" =>
    /\ DOMAIN form \subseteq Keys
    /\ \A k \in DOMAIN hist.values : k \in DOMAIN form /\ form[k] = hist.values[k]
    /\ \A k \in Keys \ DOMAIN hist.values :
         IF hist.clear THEN k \notin DOMAIN form
         ELSE /\ k \in DOMAIN form <=> k \in DOMAIN hist.pre
              /\ k \in DOMAIN form => form[k] = hist.pre[k]

\* A replace-mode set() has dropped a key the form held, and a key written by
\* that set() is there.
C3_Witness ==
  /\ hist.op = "set"
  /\ hist.clear
  /\ hist.values # EmptyObject
  /\ \E k \in DOMAIN hist.pre : k \notin DOMAIN hist.values /\ k \notin DOMAIN form

\* C4: two merge-mode set() calls with disjoint key sets give the same form in
\* either order, and each key's final value is the one given by the call that
\* mentions it (the earlier form's value when neither does).
C4_DisjointMergesCommute ==
  ( /\ hist.op = "set"
    /\ ~hist.clear
    /\ hist.before.valid
    /\ (DOMAIN hist.values) \intersect (DOMAIN hist.before.values) = {} )
  =>
    /\ form = set(set(hist.before.pre, hist.values, FALSE), hist.before.values, FALSE)
    /\ \A k \in DOMAIN form :
         form[k] = IF k \in DOMAIN hist.values THEN hist.values[k]
                   ELSE IF k \in DOMAIN hist.before.values THEN hist.before.values[k]
                   ELSE hist.before.pre[k]

\* Two merge-mode set() calls in a row, on disjoint non-empty key sets, the
\* first of them on a form that held something.
C4_Witness ==
  /\ hist.op = "set"
  /\ ~hist.clear
  /\ hist.before.valid
  /\ hist.values # EmptyObject
  /\ hist.before.values # EmptyObject
  /\ hist.before.pre # EmptyObject
  /\ (DOMAIN hist.values) \intersect (DOMAIN hist.before.values) = {}

\* C5: with a static initial option (an object, or none), reset() leaves the
\* form equal to the object given at construction (the empty object when none
\* was given), and a second reset() would change nothing.
C5_ResetRestoresStaticInitial ==
  (hist.op = "reset" /\ options.initial.kind # "function") =>
    /\ form = IF options.initial.kind = "object" THEN options.initial.object
              ELSE EmptyObject
    /\ reset(form, options, someNum) = form

\* A reset() of a changed form, after a submit() has settled and after the
\* value the initial object was computed from has changed.
C5_Witness ==
  /\ hist.op = "reset"
  /\ options.initial.kind = "object"
  /\ hist.pre # form
  /\ InitialObject(someNum) # options.initial.object
  /\ Settled(1)

\* C6: with an accessor as initial option, the constructor fills the form from
\* the accessor's value, a change of the value the accessor reads leaves the
\* form alone, and reset() leaves the form equal to what the accessor returns
\* at the time of the reset.
C6_AccessorReadAtReset ==
  options.initial.kind = "function" =>
    /\ hist.op = "constructor" => form = InitialObject(someNum)
    /\ hist.op = "someNum" => form = hist.pre
    /\ hist.op = "reset" => form = InitialObject(someNum)

\* A reset() with an accessor whose value is no longer the one read at
\* construction (options.initial.object keeps that one).
C6_Witness ==
  /\ hist.op = "reset"
  /\ options.initial.kind = "function"
  /\ form # options.initial.object
  /\ hist.pre = options.initial.object

\* The catch block has just handed an error of class cls to onError.
Caught(c, cls) ==
  /\ InFlight(c)
  /\ call[c].pc # "onError"
  /\ call'[c].pc = "onError"
  /\ call'[c].caught = cls

\* C7 as written, for what it says a settled submit() has done: after a
\* SchemaValidationError the call has resolved to null, with onError called.
C7_ResolvesNull ==
  \A c \in Calls :
    (Settled(c) /\ call[c].caught = "schema") =>
      (call[c].settled = "resolved" /\ call[c].ret = Null /\ call[c].onErrorCount = 1)

\* C7 (amended): when submit() catches a SchemaValidationError (from parsing
\* the form, from onSubmit or from the command), errors becomes the record
\* transformIssues gives for its issues, issues becomes that array, onError
\* is called with that error, and no command is invoked by the catch; when the
\* form failed to parse, the command was not invoked at all.  If onError
\* returns, submit() resolves to null; if onError throws, submit() rejects.
C7_SchemaErrorHandling ==
  [][\A c \in Calls :
       /\ Caught(c, "schema") =>
            /\ errors' = transformIssues(call'[c].err.issues)
            /\ issues' = IssuesOf(call'[c].err.issues)
            /\ call'[c].onErrorCount = call[c].onErrorCount + 1
            /\ call'[c].cmdCount = call[c].cmdCount
            /\ call[c].pc = "parse" =>
                 /\ call'[c].cmdCount = 0
                 /\ call'[c].err = SchemaValidationError(call[c].vres.issues)
       /\ (call[c].pc = "onError" /\ call[c].caught = "schema" /\ OnErrorReturns(c)) =>
            (call'[c].settled = "resolved" /\ call'[c].ret = Null)
       /\ (call[c].pc = "onError" /\ call[c].caught = "schema" /\ OnErrorThrows(c)) =>
            call'[c].settled = "rejected"
     ]_vars

\* The form failed to parse for its age alone: onError has been called,
\* errors and issues hold that issue only, and no command ran.
C7_Witness ==
  \E c \in Calls :
    /\ call[c].pc = "onError"
    /\ call[c].caught = "schema"
    /\ call[c].cmdCount = 0
    /\ call[c].err.issues = <<AgeIssue>>
    /\ errors = transformIssues(<<AgeIssue>>)
    /\ issues = IssuesOf(<<AgeIssue>>)

\* C8 as written, for what it says a settled submit() has done: after an
\* HttpError with an issue array the call has resolved to null, with onError
\* called once.
C8_ResolvesNull ==
  \A c \in Calls :
    (Settled(c) /\ call[c].caught = "http array") =>
      (call[c].settled = "resolved" /\ call[c].ret = Null /\ call[c].onErrorCount = 1)

\* C8 (amended): when submit() catches an HttpError whose body.issues is an
\* array of entries with path and message, errors becomes the dot-path-keyed
\* record of those issues, issues becomes that array, and onError is called
\* once with the HttpError.  If onError returns, submit() resolves to null; if
\* onError throws, submit() rejects.
C8_HttpIssuesHandling ==
  [][\A c \in Calls :
       /\ Caught(c, "http array") =>
            /\ isHttpError(call'[c].err)
            /\ errors' = DotPathRecord(call'[c].err.issues)
            /\ issues' = IssuesOf(call'[c].err.issues)
            /\ call[c].onErrorCount = 0
            /\ call'[c].onErrorCount = 1
       /\ (call[c].pc = "onError" /\ call[c].caught = "http array" /\ OnErrorReturns(c)) =>
            (call'[c].settled = "resolved" /\ call'[c].ret = Null)
       /\ (call[c].pc = "onError" /\ call[c].caught = "http array" /\ OnErrorThrows(c)) =>
            call'[c].settled = "rejected"
     ]_vars

\* The command has thrown an HttpError with an issue array, and errors holds
\* one entry per dot-joined path.
C8_Witness ==
  \E c \in Calls :
    /\ call[c].pc = "onError"
    /\ call[c].caught = "http array"
    /\ call[c].cmdCount = 1
    /\ errors = DotPathRecord(call[c].err.issues)
    /\ DOMAIN errors = {"address.city", ""}
    /\ issues = IssuesOf(call[c].err.issues)

\* C9 as written, for what it says a settled submit() has done: after an error
\* that is neither a SchemaValidationError nor an HttpError the call has
\* resolved to null, with onError called once.
C9_ResolvesNull ==
  \A c \in Calls :
    (Settled(c) /\ call[c].caught = "other") =>
      (call[c].settled = "resolved" /\ call[c].ret = Null /\ call[c].onErrorCount = 1)

\* C9 (amended): an error that is neither a SchemaValidationError nor an
\* HttpError is handed to onError as it is, once, and the catch block leaves
\* errors and issues as they are.  If onError returns, submit() resolves to
\* null; if onError throws, submit() rejects.
C9_OtherErrorForwarded ==
  [][\A c \in Calls :
       /\ Caught(c, "other") =>
            /\ errors' = errors
            /\ issues' = issues
            /\ call[c].onErrorCount = 0
            /\ call'[c].onErrorCount = 1
            /\ \/ call'[c].err \in Thrown
               \/ call[c].pc = "parse" /\ call'[c].err = NoValueError
       /\ (InFlight(c) /\ call[c].pc # "onError" /\ call'[c].pc = "onError") =>
            \A err \in Thrown : Catch(c, err) => call'[c].err = err
       /\ (call[c].pc = "onError" /\ call[c].caught = "other" /\ OnErrorReturns(c)) =>
            (call'[c].settled = "resolved" /\ call'[c].ret = Null)
       /\ (call[c].pc = "onError" /\ call[c].caught = "other" /\ OnErrorThrows(c)) =>
            call'[c].settled = "rejected"
     ]_vars

\* The command threw some other error while errors held an entry (of addError
\* or validate()); onError was called once and returned, submit() resolved to
\* null, and the entry is still there.
C9_Witness ==
  \E c \in Calls :
    /\ Settled(c)
    /\ call[c].caught = "other"
    /\ call[c].cmdCount = 1
    /\ call[c].onErrorCount = 1
    /\ call[c].settled = "resolved"
    /\ call[c].ret = Null
    /\ errors # NoRecord

\* C10: when onError is called with an error that is neither a schema nor an
\* HTTP validation error, the submitting flag is already false.
C10_SubmittingClearedBeforeOnError ==
  [][\A c \in Calls : Caught(c, "other") => ~submitting']_vars

\* C11: errors and issues are synchronized in every reachable state: errors is
\* the record transformIssues gives for issues, and errors is empty whenever
\* issues is null.
C11_StoresSynchronized ==
  /\ issues.null => errors = NoRecord
  /\ ~issues.null => errors = transformIssues(issues.arr)

\* C12: when validate() finds that the form passes, errors is empty and issues
\* is null afterwards, whatever they held; when it finds issues, errors holds
\* exactly the entries derived from them and issues is that array.  The
\* result validate() acts on is the schema's answer for the form at the call.
C12_ValidateSetsStores ==
  [][/\ (vcall.pc = "idle" /\ vcall'.pc = "parse") =>
          \/ vcall'.vres.issues = testSchema(form).issues
          \/ vcall'.vres.issues = <<>> /\ ~vcall'.vres.hasValue
     /\ (vcall.pc = "parse" /\ vcall'.pc = "idle") =>
          IF vcall.vres.issues # <<>>
          THEN /\ errors' = DotPathRecord(vcall.vres.issues)
               /\ issues' = IssuesOf(vcall.vres.issues)
          ELSE IF vcall.vres.hasValue
          THEN errors' = NoRecord /\ issues' = NullIssues
          ELSE errors' = errors /\ issues' = issues
    ]_vars

\* validate() has just passed on a form whose errors held an entry of
\* addError and an entry of an earlier failed validation; both are gone.
C12_Witness ==
  /\ hist.op = "validate passed"
  /\ DOMAIN hist.errs = {"name", "age"}
  /\ hist.errs["name"].message = "Test Error"
  /\ errors = NoRecord
  /\ issues = NullIssues

\* C19: addError({path, message}) sets errors[path] to {message} and changes
\* nothing else: every other entry of errors, issues, form, result and
\* submitting are as before; on empty errors the new entry is the only one.
C19_AddErrorFrame ==
  [][hist'.op = "addError" =>
       /\ DOMAIN errors' = (DOMAIN errors) \union {hist'.error.path}
       /\ errors'[hist'.error.path] = [message |-> hist'.error.message]
       /\ \A k \in (DOMAIN errors) \ {hist'.error.path} : errors'[k] = errors[k]
       /\ errors = NoRecord => DOMAIN errors' = {hist'.error.path}
       /\ issues' = issues
       /\ form' = form
       /\ result' = result
       /\ submitting' = submitting
    ]_vars

\* addError has just added an entry for "name" during a submit(), next to the
\* entry a failed validate() left for "age", whose issues are still there.
C19_Witness ==
  /\ hist.op = "addError"
  /\ hist.error = [path |-> "name", message |-> "Test Error"]
  /\ DOMAIN hist.errs = {"age"}
  /\ DOMAIN errors = {"age", "name"}
  /\ errors["age"] = hist.errs["age"]
  /\ issues = IssuesOf(<<AgeIssue>>)
  /\ submitting

\* The reset policy asks for a reset after a submit() with this outcome.
PolicyMatches(policy, succeeded) ==
  \/ policy = "always"
  \/ policy = "onSuccess" /\ succeeded
  \/ policy = "onError" /\ ~succeeded

\* C13 as written: when a submit() has settled, it has reset the form if and
\* only if the policy is 'always', or 'onSuccess' and the command resolved, or
\* 'onError' and the submit failed.
C13_ResetWhenCommandResolved ==
  Settled(1) =>
    (call[1].resets = 1 <=>
       \/ options.reset = "always"
       \/ options.reset = "onSuccess" /\ result = CommandResult(1)
       \/ options.reset = "onError" /\ call[1].caught # "none")

\* C13 (amended): when a submit() settles, it has called reset() exactly once
\* if the policy matches the outcome and not at all otherwise, where the
\* outcome is a success exactly when the command, onSuccess and every
\* invalidation completed (nothing was caught): 'always' on every outcome,
\* onError throwing included, 'onSuccess' on success, 'onError' on every
\* failure.  A reset leaves the form equal to the resolved initial value.
C13_ResetPolicy ==
  [][\A c \in Calls :
       /\ call'[c].resets > call[c].resets =>
            /\ call'[c].resets = call[c].resets + 1
            /\ form' = resolveInitial(options, someNum)
       /\ (call[c].pc # "done" /\ call'[c].pc = "done") =>
            call'[c].resets =
              IF PolicyMatches(options.reset, call'[c].caught = "none") THEN 1 ELSE 0
    ]_vars

\* With reset 'onError': the command resolved, onSuccess or an invalidation
\* threw, the form was reset, onError threw too and submit() rejected.
C13_Witness ==
  /\ Settled(1)
  /\ options.reset = "onError"
  /\ options.initial.kind = "object"
  /\ result = CommandResult(1)
  /\ call[1].caught # "none"
  /\ call[1].settled = "rejected"
  /\ call[1].resets = 1

\* C14: with no reset option, no step of a submit() changes the form, on any
\* outcome, and the submit() never calls reset().
C14_NoResetByDefault ==
  [][\A c \in Calls :
       (options.reset = "undefined" /\ call'[c] # call[c]) =>
         (form' = form /\ call'[c].resets = 0)
    ]_vars

\* With no reset option, a submit() of an edited form has failed and settled,
\* and the form is not the initial one.
C14_Witness ==
  /\ Settled(1)
  /\ options.reset = "undefined"
  /\ options.initial.kind = "object"
  /\ call[1].caught = "other"
  /\ call[1].resets = 0
  /\ form # resolveInitial(options, someNum)
  /\ hist.op = "none"

\* The calls of invalidate(target) and invalidateAll() the README promises
\* for a successful submission.
InvalidationCalls(inv) ==
  IF inv.kind = "undefined" THEN <<>>
  ELSE IF inv.kind = "all" THEN <<"invalidateAll">>
  ELSE inv.targets

\* C15: invalidate/invalidateAll is called only after the command resolved
\* and onSuccess returned, never in a submit() whose preprocess, schema parse,
\* onSubmit or command failed; when the submission succeeds, a string target
\* has been invalidated once, each element of an array once in array order,
\* and for 'all' invalidateAll has been called once.
C15_InvalidationOnSuccessOnly ==
  [][\A c \in Calls :
       /\ (call'[c].invalidated # call[c].invalidated /\ call'[c].pc # "preprocess") =>
            /\ call[c].pc \in {"onSuccess", "invalidate"}
            /\ call[c].res = CommandResult(c)
            /\ call'[c].pc = "invalidate"
            /\ Len(call'[c].invalidated) = Len(call[c].invalidated) + 1
       /\ call'[c].pc \in {"preprocess", "parse", "onSubmit", "command", "onSuccess"} =>
            call'[c].invalidated = <<>>
       /\ (call[c].pc \in {"preprocess", "parse", "onSubmit", "command"}
             /\ call'[c].pc = "onError") =>
            call'[c].invalidated = <<>>
       /\ (call[c].pc # "done" /\ call'[c].pc = "done" /\ call'[c].caught = "none") =>
            call'[c].invalidated = InvalidationCalls(options.invalidate)
    ]_vars

\* A submit() has succeeded and has invalidated the targets of the array,
\* each once, in the order of the array.
C15_Witness ==
  \E c \in Calls :
    /\ options.invalidate = Invalidate("array", <<"a", "b">>)
    /\ Settled(c)
    /\ call[c].caught = "none"
    /\ call[c].settled = "resolved"
    /\ call[c].ret = CommandResult(c)
    /\ call[c].invalidated = <<"a", "b">>

\* C16: within one submit() the steps come in a fixed order: preprocess before
\* any parsing; onSubmit only after the parse succeeded; the command only
\* after onSubmit returned, with the parsed output; onSuccess only after the
\* command resolved, with its result; and once something has thrown, no
\* later step of the try block runs.
C16_StepOrder ==
  [][\A c \in Calls :
       /\ call'[c].pc # call[c].pc =>
            /\ call'[c].pc = "preprocess" =>
                 /\ call[c].pc \in {"idle", "done"}
                 /\ call'[c].vres = NoCall.vres
                 /\ call'[c].cmdCount = 0
            /\ call'[c].pc = "parse" => call[c].pc = "preprocess"
            /\ call'[c].pc = "onSubmit" =>
                 /\ call[c].pc = "parse"
                 /\ call[c].vres.issues = <<>>
                 /\ call[c].vres.hasValue
                 /\ call'[c].parsed = call[c].vres.value
                 /\ call'[c].cmdCount = 0
            /\ call'[c].pc = "command" =>
                 /\ call[c].pc = "onSubmit"
                 /\ call'[c].cmdArg = call[c].parsed
                 /\ call'[c].cmdCount = 1
            /\ call'[c].pc = "onSuccess" =>
                 /\ call[c].pc = "command"
                 /\ call'[c].successArg = CommandResult(c)
                 /\ result' = CommandResult(c)
            /\ call'[c].pc = "invalidate" => call[c].pc = "onSuccess"
            /\ call'[c].pc = "done" => call[c].pc \in {"onSuccess", "invalidate", "onError"}
       /\ call[c].pc = "onError" =>
            /\ call'[c].pc \in {"onError", "done", "preprocess"}
            /\ call'[c].pc # "preprocess" =>
                 /\ call'[c].cmdCount = call[c].cmdCount
                 /\ call'[c].invalidated = call[c].invalidated
                 /\ call'[c].successArg = call[c].successArg
       /\ call'[c].cmdCount # call[c].cmdCount => call'[c].pc \in {"command", "preprocess"}
    ]_vars

\* onSuccess has been called with the command's result; the command was
\* called once, with the parsed output, which is the form as it was parsed
\* (the form has been edited since).
C16_Witness ==
  \E c \in Calls :
    /\ call[c].pc = "onSuccess"
    /\ call[c].cmdCount = 1
    /\ call[c].cmdArg = call[c].parsed
    /\ call[c].cmdArg # EmptyObject
    /\ call[c].cmdArg # form
    /\ call[c].successArg = CommandResult(c)
    /\ result = CommandResult(c)

\* C17: result is null before any submit(), is set to null at the start of
\* every submit(), and when a submit() settles it is the value the command
\* resolved with in that submit(), or null if the command did not resolve in
\* it.
C17_ResultIsLastCommandResult ==
  [][/\ (\A c \in Calls : call[c].pc = "idle") => result = Null
     /\ \A c \in Calls :
          /\ (call[c].pc # "preprocess" /\ call'[c].pc = "preprocess") => result' = Null
          /\ (call[c].pc # "done" /\ call'[c].pc = "done") =>
               result' = call'[c].successArg
    ]_vars

\* C18: transformIssues gives, for every issue list, the record with one key
\* per distinct dot-joined path (the empty string for an issue with no or an
\* empty path) and no other key, each holding {message} of the last issue of
\* the list with that path; an empty or missing list gives the empty record;
\* the record depends on the list alone.
C18_TransformIssuesByDotPath ==
  hist.op = "transformIssues" =>
    IF issues.null \/ issues.arr = <<>> THEN errors = NoRecord
    ELSE /\ errors = DotPathRecord(issues.arr)
         /\ errors = transformIssues(issues.arr)
         /\ DOMAIN errors = {join(issues.arr[i].path) : i \in 1..Len(issues.arr)}
         /\ \A i \in 1..Len(issues.arr) :
              /\ issues.arr[i].path = <<>> => "" \in DOMAIN errors
              /\ (\A j \in (i + 1)..Len(issues.arr) :
                    join(issues.arr[j].path) # join(issues.arr[i].path))
                 => errors[join(issues.arr[i].path)] = [message |-> issues.arr[i].message]

\* transformIssues has been applied to three issues of which the first and the
\* last join to the same key and the second has no path: two keys, and the
\* shared key holds the last message.
C18_Witness ==
  /\ hist.op = "transformIssues"
  /\ issues = IssuesOf(<<Issue(<<"a", "b">>, "m1"), Issue(<<>>, "m1"), Issue(<<"a.b">>, "m2")>>)
  /\ DOMAIN errors = {"a.b", ""}
  /\ errors["a.b"] = [message |-> "m2"]
  /\ errors[""] = [message |-> "m1"]

\* C20: standardValidate throws a SchemaValidationError carrying exactly the
\* result's issue array if and only if the result has a non-empty issues
\* list; otherwise it returns the result's value when there is one, and
\* throws an error that is no SchemaValidationError when the result has
\* neither issues nor a value.
C20_StandardValidateOutcome ==
  [][\A c \in Calls :
       (call[c].pc = "parse" /\ call'[c].pc # "parse") =>
         /\ (call'[c].pc = "onError" /\ call'[c].err.kind = "schema")
              <=> Len(call[c].vres.issues) > 0
         /\ Len(call[c].vres.issues) > 0 =>
              call'[c].err = SchemaValidationError(call[c].vres.issues)
         /\ (call[c].vres.issues = <<>> /\ call[c].vres.hasValue) =>
              /\ call'[c].pc = "onSubmit"
              /\ call'[c].parsed = call[c].vres.value
         /\ (call[c].vres.issues = <<>> /\ ~call[c].vres.hasValue) =>
              /\ call'[c].pc = "onError"
              /\ call'[c].err.kind = "other"
              /\ call'[c].err = NoValueError
    ]_vars

\* standardValidate has thrown a SchemaValidationError with the two issues
\* of the result, in their order, and the catch block has stored them.
C20_Witness ==
  /\ call[1].pc = "onError"
  /\ call[1].caught = "schema"
  /\ call[1].err = SchemaValidationError(<<Issue(<<"a", "b">>, "m2"), Issue(<<>>, "m1")>>)
  /\ issues = IssuesOf(call[1].err.issues)
  /\ call[1].cmdCount = 0

\* C21 as written: a settled submit() has invoked the command at most once,
\* and if something was thrown in it, it has resolved to null.
C21_NeverRejects ==
  \A c \in Calls :
    Settled(c) =>
      /\ call[c].cmdCount <= 1
      /\ call[c].caught # "none" => (call[c].settled = "resolved" /\ call[c].ret = Null)

\* C21 (amended): a submit() invokes the command at most once; whatever
\* preprocess, the schema parse, onSubmit, the command, onSuccess or an
\* invalidation throws is caught and handed to onError, once; the call then
\* resolves to null if onError returns, and rejects with onError's error if
\* onError throws.
C21_FailuresSurfaced ==
  [][\A c \in Calls :
       /\ call'[c].cmdCount <= 1
       /\ (call[c].pc # "onError" /\ call'[c].pc = "onError") =>
            /\ call[c].pc \in {"preprocess", "parse", "onSubmit", "command",
                                "onSuccess", "invalidate"}
            /\ call'[c].err # NoError
            /\ call'[c].caught = errorClass(call'[c].err)
            /\ call'[c].onErrorCount = 1
       /\ (call[c].pc # "done" /\ call'[c].pc = "done" /\ call'[c].caught # "none") =>
            /\ call[c].pc = "onError"
            /\ call'[c].onErrorCount = 1
            /\ \/ call'[c].settled = "resolved" /\ call'[c].ret = Null /\ call'[c].err = NoError
               \/ call'[c].settled = "rejected" /\ call'[c].err = OnErrorFailure
    ]_vars

\* The command was invoked once and resolved, something after it threw,
\* onError was called once and returned, and submit() resolved to null.
C21_Witness ==
  \E c \in Calls :
    /\ Settled(c)
    /\ call[c].cmdCount = 1
    /\ call[c].successArg = CommandResult(c)
    /\ call[c].caught # "none"
    /\ call[c].onErrorCount = 1
    /\ call[c].settled = "resolved"
    /\ call[c].ret = Null
    /\ call[c].err = NoError

\* C22: validate() parses the form as submit() does and sends nothing: no
\* step of it calls preprocess, onSubmit, the command, onSuccess, onError or
\* an invalidation, and form, result and submitting are left as they are;
\* only errors and issues may change.
C22_ValidateFrame ==
  [][vcall' # vcall =>
       /\ form' = form
       /\ result' = result
       /\ submitting' = submitting
       /\ call' = call
       /\ options' = options
       /\ vcall.pc = "idle" =>
            /\ errors' = errors
            /\ issues' = issues
            /\ \E r \in SchemaResults(form) :
                 /\ vcall'.vres.issues = r.issues
                 /\ vcall'.vres.hasValue = r.hasValue
                 /\ standardValidate(vcall'.vres).threw = standardValidate(r).threw
    ]_vars

\* A validate() has just failed while a submit() was waiting for onSuccess:
\* the call, the result of its command and the submitting flag are as they
\* were.
C22_Witness ==
  /\ hist.op = "validate failed"
  /\ call[1].pc = "onSuccess"
  /\ call[1].cmdCount = 1
  /\ submitting
  /\ result = CommandResult(1)
  /\ errors # NoRecord

\* C23: onError is called exactly once in every submit() that fails, whatever
\* the kind of the error (a SchemaValidationError, an HttpError with an issue
\* array, an HttpError with another or no issues body, any other error), and
\* never in a submit() whose command, onSuccess and invalidations all
\* completed; with reset 'onError' the form has been reset by the time
\* onError is called.
C23_OnErrorOncePerFailure ==
  [][\A c \in Calls :
       /\ (call'[c].onErrorCount # call[c].onErrorCount /\ call'[c].pc # "preprocess") =>
            /\ call[c].pc # "onError"
            /\ call'[c].pc = "onError"
            /\ call'[c].onErrorCount = call[c].onErrorCount + 1
            /\ call'[c].caught \in {"schema", "http array", "http record", "http none", "other"}
            /\ options.reset = "onError" =>
                 /\ form' = resolveInitial(options, someNum)
                 /\ call'[c].resets = 1
       /\ (call[c].pc # "onError" /\ call'[c].pc = "onError") =>
            call'[c].onErrorCount = 1
       /\ (call[c].pc # "done" /\ call'[c].pc = "done") =>
            call'[c].onErrorCount = IF call'[c].caught = "none" THEN 0 ELSE 1
    ]_vars

\* With reset 'onError': the command threw an HttpError whose body.issues is
\* a record; onError has been called once and the form is the initial one.
C23_Witness ==
  \E c \in Calls :
    /\ call[c].pc = "onError"
    /\ options.reset = "onError"
    /\ options.initial.kind = "object"
    /\ call[c].caught = "http record"
    /\ call[c].cmdCount = 1
    /\ call[c].onErrorCount = 1
    /\ call[c].resets = 1
    /\ form = resolveInitial(options, someNum)
    /\ errors # NoRecord

C25_StoresClearAtCommand ==
  [][\A c \in Calls :
       (call[c].pc # "command" /\ call'[c].pc = "command") =>
         (errors' = NoRecord /\ issues' = NullIssues)
    ]_vars

\* C25 (amended): submit() empties errors and sets issues to null when it
\* starts, and none of its own steps up to and including the invocation of
\* the command writes them; between the start and the command they change
\* only when a validate() call on the instance settles (no addError being
\* made), and what that validate() wrote is still there when the command is
\* invoked.
C25_StoresUntilCommand ==
  [][\A c \in Calls :
       /\ (call[c].pc # "preprocess" /\ call'[c].pc = "preprocess") =>
            (errors' = NoRecord /\ issues' = NullIssues)
       /\ (call[c].pc \in {"preprocess", "parse", "onSubmit"}
             /\ call'[c].pc \in {"parse", "onSubmit", "command"}
             /\ call'[c].pc # call[c].pc) =>
            (errors' = errors /\ issues' = issues)
       /\ (call[c].pc \in {"preprocess", "parse", "onSubmit"}
             /\ call'[c] = call[c]
             /\ (errors' # errors \/ issues' # issues)) =>
            (vcall.pc = "parse" /\ vcall'.pc = "idle")
    ]_vars

\* The command has been invoked with a parsed form that holds an age, while
\* errors and issues hold what a validate() that saw no age wrote after the
\* submit() had started.
C25_Witness ==
  /\ call[1].pc = "command"
  /\ "age" \in DOMAIN call[1].cmdArg
  /\ errors = transformIssues(<<AgeIssue>>)
  /\ issues = IssuesOf(<<AgeIssue>>)
  /\ hist.op = "none"

\* C26: reset() and set() change the form only: errors, issues, result and
\* submitting are after the call what they were before it; the reset() a
\* reset policy makes when a submit() returns or settles leaves errors, issues
\* and result as they are too, so errors recorded by the catch block survive
\* it; the reset() of policy 'onError' does not change what the catch block
\* records.
C26_ResetAndSetFrame ==
  [][/\ (call' = call /\ vcall' = vcall) =>
          /\ errors' = errors
          /\ issues' = issues
          /\ result' = result
          /\ submitting' = submitting
     /\ \A c \in Calls :
          (call[c].pc # "done" /\ call'[c].pc = "done") =>
            /\ errors' = errors
            /\ issues' = issues
            /\ result' = result
            /\ call'[c].resets > call[c].resets => form' = resolveInitial(options, someNum)
     /\ \A c \in Calls :
          (call[c].pc # "onError" /\ call'[c].pc = "onError") =>
            /\ errors' = catchErrors(call'[c].err).errors
            /\ issues' = catchErrors(call'[c].err).issues
            /\ result' = result
            /\ submitting' = submitting
            /\ call'[c].resets > call[c].resets => form' = resolveInitial(options, someNum)
    ]_vars

\* With reset 'always': a submit() of a changed form failed validation and has
\* settled; the form has been reset and the errors of the failure are there.
C26_Witness ==
  /\ Settled(1)
  /\ options.reset = "always"
  /\ options.initial.kind = "object"
  /\ call[1].caught = "schema"
  /\ call[1].resets = 1
  /\ form = resolveInitial(options, someNum)
  /\ errors = transformIssues(<<NameIssue>>)
  /\ issues = IssuesOf(<<NameIssue>>)


====
